---- MODULE Spec2Model ----
(***************************************************************************)
(* Handle lifecycle and dispatch core of the GlueSQL Java (JNI) bridge:    *)
(* pkg/java/src/{lib,callback,payload,storages,error}.rs.                  *)
(*                                                                         *)
(* State: the heap slots (Box<JavaGlue>) behind the handles, the shared    *)
(* engine of every instance (Arc<RwLock<JavaStorageEngine>>: contents,     *)
(* write lock, poison flag, strong count), one record per query call       *)
(* (its position in JavaGlue::query and its locals), and the sink object   *)
(* of every asynchronous call.                                             *)
(*                                                                         *)
(* The host obeys the SAFETY preconditions written in lib.rs: a handle     *)
(* passed to nativeQuery / nativeQueryAsync / nativeFree was returned by a *)
(* nativeNew* call and has not been freed, and no synchronous query is     *)
(* still borrowing the JavaGlue when the handle is freed.                  *)
(*                                                                         *)
(* A panic that unwinds out of an extern "system" entry point aborts the   *)
(* process (variable aborted); a panic on a std::thread worker ends that   *)
(* worker only.                                                            *)
(***************************************************************************)
EXTENDS Integers, Sequences, FiniteSets, TLC

\* ---------------------------------------------------------------- bounds
MaxNew == 2          \* nativeNew* calls in one behaviour of SpecLife
MaxBatchCalls == 1   \* query calls in one behaviour of SpecBatch
MaxCalls == 2        \* query calls in one behaviour of Spec

Handles == 1..MaxNew     \* the heap addresses a Box<JavaGlue> is placed at
Insts == 1..MaxNew
Calls == 1..MaxCalls

\* ------------------------------------------------------ storage backends
\* JavaStorageEngine: the variants the nativeNew* entry points build.
Kinds == {"Memory", "SharedMemory", "Sled", "Json", "Redb"}

\* The entry points that take a path and whose backend constructor returns
\* a Result (nativeNewSled, nativeNewJson, nativeNewRedb).
PathKinds == {"Sled", "Json", "Redb"}

\* ------------------------------------------------------------- SQL texts
\* A text is a sequence of statement sources.  "GARBAGE" does not parse,
\* "UNSUPPORTED" parses but is rejected by translate, "SELECT missing"
\* fails in execution (no such table), "CRASH" makes the backend panic
\* while it executes.  "SELECT id, val AS id" selects both columns under
\* the label id, "SELECT unrepresentable" selects, as val, a value that
\* serde_json::Value::try_from rejects.

\* The statement sources that are answered with a Payload other than
\* Insert and Select, and the variant of Payload each is answered with.
PlainShape ==
    [s \in {"CREATE TABLE", "UPDATE", "DELETE", "DROP TABLE", "ALTER TABLE",
            "CREATE INDEX", "DROP INDEX", "SHOW COLUMNS", "SELECT map",
            "DROP FUNCTION", "SHOW VERSION", "BEGIN", "COMMIT", "ROLLBACK"} |->
       CASE s = "CREATE TABLE" -> "Create"
         [] s = "UPDATE" -> "Update"
         [] s = "DELETE" -> "Delete"
         [] s = "DROP TABLE" -> "DropTable"
         [] s = "ALTER TABLE" -> "AlterTable"
         [] s = "CREATE INDEX" -> "CreateIndex"
         [] s = "DROP INDEX" -> "DropIndex"
         [] s = "SHOW COLUMNS" -> "ShowColumns"
         [] s = "SELECT map" -> "SelectMap"
         [] s = "DROP FUNCTION" -> "DropFunction"
         [] s = "SHOW VERSION" -> "ShowVariable"
         [] s = "BEGIN" -> "StartTransaction"
         [] s = "COMMIT" -> "Commit"
         [] OTHER -> "Rollback"]

\* One text per variant of Payload, and the SELECTs after an INSERT.
ProjectTexts ==
    { <<s>> : s \in DOMAIN PlainShape } \cup
    { <<"INSERT 1">>, <<"SELECT">>, <<"SELECT unrepresentable">>,
      <<"INSERT 1", "SELECT">>,
      <<"INSERT 1", "UPDATE">>,
      <<"INSERT 1", "DELETE">>,
      <<"INSERT 1", "SELECT id, val AS id">>,
      <<"INSERT 1", "SELECT unrepresentable">>,
      <<"INSERT 1", "INSERT 2", "SELECT id, val AS id">> }

LifeTexts ==
    { <<"INSERT 1">>, <<"CRASH">> }

FairTexts ==
    { <<"INSERT 1">>, <<"INSERT 1", "SELECT missing">> }

OrderTexts ==
    FairTexts \cup { <<"SELECT">> }

ShortTexts ==
    LifeTexts \cup
    { <<"INSERT 2">>, <<"SELECT">>, <<"INSERT 1", "SELECT missing">> }

Texts ==
    ShortTexts \cup
    { <<>>,
      <<"SELECT missing">>,
      <<"INSERT 1", "SELECT">>,
      <<"INSERT 1", "GARBAGE">>,
      <<"INSERT 1", "UNSUPPORTED">>,
      <<"INSERT 2", "SELECT missing">>,
      <<"INSERT 1", "SELECT missing", "INSERT 2">> }

Labels == <<"id", "val">>

\* The values of the stored row with key r, in column declaration order.
RowValues(r) == <<r, r + 10>>

RECURSIVE SortedRows(_)
\* The rows of a table in key order, as the backend returns them.
SortedRows(S) ==
    IF S = {} THEN <<>>
    ELSE LET m == CHOOSE x \in S : \A y \in S : x <= y
         IN <<RowValues(m)>> \o SortedRows(S \ {m})

NoPayload == [shape |-> "none", n |-> 0, labels |-> <<>>, rows |-> <<>>]

\* The parsed form of one statement source.
ast(src) ==
    CASE src = "INSERT 1" -> [node |-> "Insert", table |-> "t", row |-> 1]
      [] src = "INSERT 2" -> [node |-> "Insert", table |-> "t", row |-> 2]
      [] src = "SELECT" -> [node |-> "Query", table |-> "t", row |-> 0]
      [] src = "SELECT missing" -> [node |-> "Query", table |-> "missing", row |-> 0]
      [] src = "CRASH" -> [node |-> "Crash", table |-> "t", row |-> 0]
      [] src = "SELECT id, val AS id" ->
            [node |-> "SelectAliased", table |-> "t", row |-> 0]
      [] src = "SELECT unrepresentable" ->
            [node |-> "SelectUnrepresentable", table |-> "t", row |-> 0]
      [] src \in DOMAIN PlainShape ->
            [node |-> PlainShape[src], table |-> "t", row |-> 0]
      [] OTHER -> [node |-> "Unsupported", table |-> "", row |-> 0]

\* A parser that stops at the first statement it cannot parse and returns
\* the statements before it.
parse_prefix(sql) ==
    LET bad == {i \in DOMAIN sql : sql[i] = "GARBAGE"}
        n == IF bad = {} THEN Len(sql)
             ELSE (CHOOSE i \in bad : \A j \in bad : i <= j) - 1
    IN [ok |-> TRUE, msg |-> "", queries |-> [i \in 1..n |-> ast(sql[i])]]

\* gluesql_core::prelude::parse(&sql): the whole text is parsed before any
\* statement runs; one statement that does not parse fails the text.
parse(sql) ==
    IF \E i \in DOMAIN sql : sql[i] = "GARBAGE"
    THEN [ok |-> FALSE, msg |-> "parse error", queries |-> <<>>]
    ELSE [ok |-> TRUE, msg |-> "", queries |-> [i \in DOMAIN sql |-> ast(sql[i])]]

\* serde_json::Value::try_from(value) succeeds.
Representable(v) == v \in Nat

\* labels.iter().zip(values) collected into a serde_json map: the pairs up
\* to the shorter length, a later pair replacing an earlier one with the
\* same key.
ZipRow(labels, values) ==
    LET n == IF Len(labels) <= Len(values) THEN Len(labels) ELSE Len(values)
        last(key) == CHOOSE i \in 1..n :
                        /\ labels[i] = key
                        /\ \A j \in 1..n : labels[j] = key => j <= i
    IN [key \in {labels[i] : i \in 1..n} |-> values[last(key)]]

\* gluesql_core::prelude::translate, one parsed query at a time.
translate(query) ==
    IF query.node = "Unsupported"
    THEN [ok |-> FALSE, msg |-> "translate error",
          statement |-> [op |-> "none", table |-> "", row |-> 0]]
    ELSE [ok |-> TRUE, msg |-> "",
          statement |-> [op |-> IF query.node = "Query" THEN "Select" ELSE query.node,
                         table |-> query.table, row |-> query.row]]

\* gluesql_core::prelude::execute(&mut storage.0, statement) on a backend
\* whose table holds the rows `rows`: the outcome, the rows it leaves and
\* the Payload.
execute(statement, rows) ==
    CASE statement.op = "Insert" ->
            [status |-> "ok", msg |-> "", rows |-> rows \cup {statement.row},
             payload |-> [shape |-> "Insert", n |-> 1, labels |-> <<>>, rows |-> <<>>]]
      [] statement.op = "Select" /\ statement.table = "t" ->
            [status |-> "ok", msg |-> "", rows |-> rows,
             payload |-> [shape |-> "Select", n |-> 0, labels |-> Labels,
                          rows |-> SortedRows(rows)]]
      [] statement.op = "Select" /\ statement.table # "t" ->
            [status |-> "err", msg |-> "execute error", rows |-> rows,
             payload |-> NoPayload]
      [] statement.op = "SelectAliased" ->
            [status |-> "ok", msg |-> "", rows |-> rows,
             payload |-> [shape |-> "Select", n |-> 0, labels |-> <<"id", "id">>,
                          rows |-> SortedRows(rows)]]
      [] statement.op = "SelectUnrepresentable" ->
            [status |-> "ok", msg |-> "", rows |-> rows,
             payload |-> [shape |-> "Select", n |-> 0, labels |-> Labels,
                          rows |-> [j \in DOMAIN SortedRows(rows) |->
                                      <<SortedRows(rows)[j][1], -1>>]]]
      [] statement.op \in {"Update", "Delete"} ->
            [status |-> "ok", msg |-> "",
             rows |-> IF statement.op = "Delete" THEN {} ELSE rows,
             payload |-> [shape |-> statement.op, n |-> Cardinality(rows),
                          labels |-> <<>>, rows |-> <<>>]]
      [] statement.op = "DropTable" ->
            [status |-> "ok", msg |-> "", rows |-> {},
             payload |-> [shape |-> "DropTable", n |-> 1, labels |-> <<>>, rows |-> <<>>]]
      [] statement.op = "ShowColumns" ->
            [status |-> "ok", msg |-> "", rows |-> rows,
             payload |-> [shape |-> "ShowColumns", n |-> 0, labels |-> <<>>,
                          rows |-> Labels]]
      [] statement.op = "SelectMap" ->
            [status |-> "ok", msg |-> "", rows |-> rows,
             payload |-> [shape |-> "SelectMap", n |-> 0, labels |-> <<>>,
                          rows |-> [j \in DOMAIN SortedRows(rows) |->
                                      ZipRow(Labels, SortedRows(rows)[j])]]]
      [] statement.op \in {"Create", "AlterTable", "CreateIndex", "DropIndex",
                           "DropFunction", "ShowVariable", "StartTransaction",
                           "Commit", "Rollback"} ->
            [status |-> "ok", msg |-> "", rows |-> rows,
             payload |-> [shape |-> statement.op, n |-> 0, labels |-> <<>>, rows |-> <<>>]]
      [] OTHER ->
            [status |-> "panic", msg |-> "", rows |-> rows, payload |-> NoPayload]

\* ------------------------------------------------------ result projector
\* The record pushed for one payload.
Project(p) ==
    CASE p.shape = "Create" -> [type |-> "Create", result |-> "Success"]
      [] p.shape = "Insert" -> [type |-> "Insert", inserted_rows |-> p.n]
      [] p.shape = "Update" -> [type |-> "Update", updated_rows |-> p.n]
      [] p.shape = "Delete" -> [type |-> "Delete", deleted_rows |-> p.n]
      [] p.shape = "Select" ->
            [type |-> "Select", labels |-> p.labels,
             rows |-> [i \in DOMAIN p.rows |-> ZipRow(p.labels, p.rows[i])]]
      [] p.shape = "DropTable" -> [type |-> "Drop", dropped_tables |-> p.n]
      [] p.shape = "AlterTable" -> [type |-> "AlterTable", result |-> "Success"]
      [] p.shape = "CreateIndex" -> [type |-> "CreateIndex", result |-> "Success"]
      [] p.shape = "DropIndex" -> [type |-> "DropIndex", result |-> "Success"]
      [] p.shape = "ShowColumns" -> [type |-> "ShowColumns", columns |-> p.rows]
      [] p.shape = "SelectMap" -> [type |-> "SelectMap", rows |-> p.rows]
      [] p.shape = "DropFunction" -> [type |-> "DropFunction", result |-> "Success"]
      [] p.shape = "ShowVariable" -> [type |-> "ShowVariable", variable |-> p.n]
      [] p.shape = "StartTransaction" -> [type |-> "StartTransaction", result |-> "Success"]
      [] p.shape = "Commit" -> [type |-> "Commit", result |-> "Success"]
      [] OTHER -> [type |-> "Rollback", result |-> "Success"]

\* A projector that pushes each record at the front of the results.
convert_payload_reversed(payloads) ==
    [panic |-> FALSE,
     val |-> [i \in DOMAIN payloads |-> Project(payloads[Len(payloads) + 1 - i])]]

\* convert_payload: one record per payload, in the order of the payloads;
\* the unwrap on a Select value that has no serialized form panics.
convert_payload(payloads) ==
    IF \E i \in DOMAIN payloads :
          /\ payloads[i].shape = "Select"
          /\ \E r \in DOMAIN payloads[i].rows :
                LET row == payloads[i].rows[r]
                    n == IF Len(payloads[i].labels) <= Len(row)
                         THEN Len(payloads[i].labels) ELSE Len(row)
                IN \E j \in 1..n : ~Representable(row[j])
    THEN [panic |-> TRUE, val |-> <<>>]
    ELSE [panic |-> FALSE, val |-> [i \in DOMAIN payloads |-> Project(payloads[i])]]

\* -------------------------------------------------------- callback bridge
\* call_error_callback: onError(message), unless the message string cannot
\* be created.
call_error_callback(message, str_ok) ==
    IF str_ok THEN <<[entry |-> "onError", val |-> <<>>, msg |-> message]>> ELSE <<>>

\* A bridge that reports completion through onError after every delivery.
call_java_callback_both(result, attach_ok, str_ok) ==
    IF result.tag = "Ok"
    THEN <<[entry |-> "onSuccess", val |-> result.val, msg |-> ""],
           [entry |-> "onError", val |-> <<>>, msg |-> "done"]>>
    ELSE call_error_callback(result.msg, str_ok)

\* A bridge that delivers although the worker could not attach.
call_java_callback_unattached(result, attach_ok, str_ok) ==
    IF result.tag = "Ok"
    THEN IF str_ok
         THEN <<[entry |-> "onSuccess", val |-> result.val, msg |-> ""]>>
         ELSE <<>>
    ELSE call_error_callback(result.msg, str_ok)

\* call_java_callback: the invocations made on the sink of callback_data
\* for `result`, given whether the worker can attach to the JavaVM and
\* whether the Java string can be created.
call_java_callback(result, attach_ok, str_ok) ==
    IF ~attach_ok THEN <<>>
    ELSE IF result.tag = "Ok"
         THEN IF str_ok
              THEN <<[entry |-> "onSuccess", val |-> result.val, msg |-> ""]>>
              ELSE <<>>
         ELSE call_error_callback(result.msg, str_ok)

\* ------------------------------------------------------------------ state
VARIABLES
    boxes,       \* handle (heap address) -> the instance whose JavaGlue is boxed
                 \* there, 0 if none (lib.rs:115 Box::into_raw, :276 Box::from_raw)
    kind,        \* instance -> its JavaStorageEngine variant, "none" before it is
                 \* built (lib.rs:113, storages.rs:74)
    storage,     \* instance -> the rows held by the backend (lib.rs:28)
    lockHolder,  \* instance -> the call holding the RwLock write guard, 0 if
                 \* free (lib.rs:60)
    poisoned,    \* instance -> the RwLock is poisoned (lib.rs:60)
    refs,        \* instance -> strong count of the Arc pair storage, runtime
                 \* (lib.rs:44-45, :86-87)
    calls,       \* call -> the record of one nativeQuery / nativeQueryAsync call
    sink,        \* call -> the invocations received by the callback object of
                 \* that call (callback.rs:23, :42)
    aborted,     \* a panic reached an extern "system" frame: the process is gone
    created,     \* the last nativeNew* call: its number, its kind, whether the
                 \* backend was constructed (ok), and the value returned
    freeZero     \* the parity of the number of nativeFree(0) calls made

vars == <<boxes, kind, storage, lockHolder, poisoned, refs, calls, sink, aborted,
          created, freeZero>>

engine == <<kind, storage, lockHolder, poisoned, refs>>

NoResult == [tag |-> "none", val |-> <<>>, msg |-> ""]
Ok(val) == [tag |-> "Ok", val |-> val, msg |-> ""]
Err(msg) == [tag |-> "Err", val |-> <<>>, msg |-> msg]

NoStatement == [op |-> "none", table |-> "", row |-> 0]

\* A call record.  mode: "sync" (nativeQuery) or "async" (nativeQueryAsync);
\* glue: the instance reached through the handle; pc: the position in
\* JavaGlue::query and its caller; queries, k, statement, payloads, result:
\* the locals of query; snap: the rows the running execute started from,
\* empty when none runs;
\* log: the statements handed to the backend so far; after: the calls
\* that had ended when this one began; ctx: the CallbackData; panic: why
\* the thread panicked; ret: what nativeQuery returned; held: the call that
\* held the write lock when nativeQueryAsync returned, kept until the
\* spawned worker starts to run; attach: whether attach_current_thread
\* succeeded in call_java_callback.
IdleCall ==
    [mode |-> "none", handle |-> 0, glue |-> 0, sql |-> <<>>, pc |-> "idle",
     queries |-> <<>>, k |-> 0, statement |-> NoStatement, payloads |-> <<>>,
     snap |-> {}, log |-> <<>>, result |-> NoResult, after |-> {},
     ctx |-> "none", panic |-> "none", ret |-> "none", held |-> 0,
     attach |-> "none"]

Running == {"query", "lock", "exec", "return", "deliver"}
Ended == {"done", "panicked"}

Init ==
    /\ boxes = [h \in Handles |-> 0]
    /\ kind = [i \in Insts |-> "none"]
    /\ storage = [i \in Insts |-> {}]
    /\ lockHolder = [i \in Insts |-> 0]
    /\ poisoned = [i \in Insts |-> FALSE]
    /\ refs = [i \in Insts |-> 0]
    /\ calls = [c \in Calls |-> IdleCall]
    /\ sink = [c \in Calls |-> <<>>]
    /\ aborted = FALSE
    /\ created = [n |-> 0, kind |-> "none", ok |-> FALSE, ret |-> 0]
    /\ freeZero = 0

\* The first unused call record, 0 when MaxCalls calls were made.
NextCall ==
    IF \E c \in Calls : calls[c].pc = "idle"
    THEN CHOOSE c \in Calls : calls[c].pc = "idle" /\ \A d \in Calls : d < c => calls[d].pc # "idle"
    ELSE 0

\* The first instance not built yet, 0 when MaxNew were built.
NextInst ==
    IF \E i \in Insts : kind[i] = "none"
    THEN CHOOSE i \in Insts : kind[i] = "none" /\ \A j \in Insts : j < i => kind[j] # "none"
    ELSE 0

\* ------------------------------------------------------- creation / free
\* handle_storage_creation_error with a non-zero return value.
handle_storage_creation_error_nonzero == MaxNew

handle_storage_creation_error == 0

\* Box::new: the glue is placed at the first free address.
BoxAddress == CHOOSE a \in Handles : boxes[a] = 0 /\ \A b \in Handles : b < a => boxes[b] # 0

\* Java_org_gluesql_GlueSQL_nativeNew{Memory,SharedMemory,Sled,Json,Redb}.
\* path_ok: env.get_string(&path) succeeds; storage_ok: the backend
\* constructor returns Ok; rt_ok: Runtime::new() succeeds (JavaGlue::new
\* panics on its expect otherwise).
nativeNew(k, path_ok, storage_ok, rt_ok) ==
    /\ ~aborted
    /\ NextInst # 0
    /\ k \notin PathKinds => path_ok /\ storage_ok
    /\ IF ~(path_ok /\ storage_ok)
       THEN /\ created' = [n |-> created.n + 1, kind |-> k, ok |-> FALSE,
                           ret |-> handle_storage_creation_error]
            /\ UNCHANGED <<boxes, engine, aborted>>
       ELSE IF ~rt_ok
       THEN /\ aborted' = TRUE
            /\ created' = [n |-> created.n + 1, kind |-> k, ok |-> TRUE, ret |-> 0]
            /\ UNCHANGED <<boxes, engine>>
       ELSE LET i == NextInst
                addr == BoxAddress
            IN /\ kind' = [kind EXCEPT ![i] = k]
               /\ storage' = [storage EXCEPT ![i] = {}]
               /\ lockHolder' = [lockHolder EXCEPT ![i] = 0]
               /\ poisoned' = [poisoned EXCEPT ![i] = FALSE]
               /\ refs' = [refs EXCEPT ![i] = 1]
               /\ boxes' = [boxes EXCEPT ![addr] = i]
               /\ created' = [n |-> created.n + 1, kind |-> k, ok |-> TRUE, ret |-> addr]
               /\ UNCHANGED aborted
    /\ UNCHANGED <<calls, sink, freeZero>>

\* nativeFree without the `handle != 0` test: Box::from_raw(null) is
\* dropped, which crashes the process.
nativeFree_unchecked(handle) ==
    /\ ~aborted
    /\ handle # 0 => boxes[handle] # 0
    /\ handle # 0 =>
          \A c \in Calls : ~(calls[c].mode = "sync" /\ calls[c].handle = handle
                             /\ calls[c].pc \in Running)
    /\ IF handle # 0
       THEN /\ refs' = [refs EXCEPT ![boxes[handle]] = @ - 1]
            /\ boxes' = [boxes EXCEPT ![handle] = 0]
            /\ UNCHANGED <<freeZero, aborted>>
       ELSE /\ freeZero' = 1 - freeZero
            /\ aborted' = TRUE
            /\ UNCHANGED <<boxes, refs>>
    /\ UNCHANGED <<kind, storage, lockHolder, poisoned, calls, sink, created>>

\* A free that destroys the engine together with the Box, whoever else
\* holds a clone.
nativeFree_destroying(handle) ==
    /\ ~aborted
    /\ handle # 0 => boxes[handle] # 0
    /\ handle # 0 =>
          \A c \in Calls : ~(calls[c].mode = "sync" /\ calls[c].handle = handle
                             /\ calls[c].pc \in Running)
    /\ IF handle # 0
       THEN /\ refs' = [refs EXCEPT ![boxes[handle]] = 0]
            /\ storage' = [storage EXCEPT ![boxes[handle]] = {}]
            /\ boxes' = [boxes EXCEPT ![handle] = 0]
            /\ UNCHANGED freeZero
       ELSE /\ freeZero' = 1 - freeZero
            /\ UNCHANGED <<boxes, refs, storage>>
    /\ UNCHANGED <<kind, lockHolder, poisoned, calls, sink, aborted, created>>

\* Java_org_gluesql_GlueSQL_nativeFree(handle): the host passes 0 or a live
\* handle no synchronous query is borrowing.  Dropping the Box drops its
\* two Arcs; the engine lives on while a worker holds clones.
nativeFree(handle) ==
    /\ ~aborted
    /\ handle # 0 => boxes[handle] # 0
    /\ handle # 0 =>
          \A c \in Calls : ~(calls[c].mode = "sync" /\ calls[c].handle = handle
                             /\ calls[c].pc \in Running)
    /\ IF handle # 0
       THEN /\ refs' = [refs EXCEPT ![boxes[handle]] = @ - 1]
            /\ boxes' = [boxes EXCEPT ![handle] = 0]
            /\ UNCHANGED freeZero
       ELSE /\ freeZero' = 1 - freeZero
            /\ UNCHANGED <<boxes, refs>>
    /\ UNCHANGED <<kind, storage, lockHolder, poisoned, calls, sink, aborted, created>>

\* ------------------------------------------------------------ query calls
\* Where a call goes when JavaGlue::query has returned: back into
\* nativeQuery, or on to call_java_callback in the worker closure.
AfterQuery(mode) == IF mode = "sync" THEN "return" ELSE "deliver"

\* The thread of `call` panics: the worker's closure is unwound, dropping
\* its CallbackData.
Panicked(call, cause) ==
    [call EXCEPT !.pc = "panicked", !.panic = cause,
                 !.ctx = IF @ = "live" THEN "dropped" ELSE @]

\* The strong counts once the thread of `call` has ended: a worker drops
\* its glue_clone.
RefsAfterEnd(call) ==
    IF call.mode = "async" THEN [refs EXCEPT ![call.glue] = @ - 1] ELSE refs

\* Java_org_gluesql_GlueSQL_nativeQuery, up to the call of glue.query.
\* str_ok: env.get_string(&sql) succeeds; otherwise handle_jstring_error
\* throws and null is returned.
nativeQuery(handle, sql, str_ok) ==
    /\ ~aborted
    /\ boxes[handle] # 0
    /\ NextCall # 0
    /\ LET c == NextCall
           base == [IdleCall EXCEPT !.mode = "sync", !.handle = handle,
                                    !.glue = boxes[handle],
                                    !.after = {d \in Calls : calls[d].pc \in Ended}]
       IN calls' = [calls EXCEPT ![c] =
                      IF str_ok
                      THEN [base EXCEPT !.sql = sql, !.pc = "query"]
                      ELSE [base EXCEPT !.pc = "done", !.ret = "exception",
                                        !.result = Err("Failed to parse string parameter")]]
    /\ UNCHANGED <<boxes, engine, sink, aborted, created, freeZero>>

\* A clone that builds an engine of its own for the worker.
glue_clone_copied(i) == IF i = MaxNew THEN 1 ELSE i + 1

\* query_async, lines 85-88: glue_clone holds Arc::clone of storage and of
\* runtime, which point to the allocations of instance i.
glue_clone(i) == i

\* An entry point that returns only once it has seen the write lock free.
nativeQueryAsync_locked(handle, sql, fail, errstr_ok) ==
    /\ ~aborted
    /\ boxes[handle] # 0
    /\ lockHolder[boxes[handle]] = 0
    /\ NextCall # 0
    /\ LET c == NextCall
           i == boxes[handle]
           base == [IdleCall EXCEPT !.mode = "async", !.handle = handle,
                                    !.glue = glue_clone(i),
                                    !.after = {d \in Calls : calls[d].pc \in Ended}]
           message == CASE fail = "string" -> "Failed to parse SQL string"
                        [] fail = "vm" -> "Failed to get JavaVM"
                        [] OTHER -> "Failed to create global reference"
       IN IF fail # "none"
          THEN /\ calls' = [calls EXCEPT ![c] =
                              [base EXCEPT !.pc = "done", !.result = Err(message)]]
               /\ sink' = [sink EXCEPT ![c] = call_error_callback(message, errstr_ok)]
               /\ UNCHANGED refs
          ELSE /\ calls' = [calls EXCEPT ![c] =
                              [base EXCEPT !.sql = sql, !.pc = "query", !.ctx = "live",
                                           !.held = lockHolder[i]]]
               /\ refs' = [refs EXCEPT ![i] = @ + 1]
               /\ UNCHANGED sink
    /\ UNCHANGED <<boxes, kind, storage, lockHolder, poisoned, aborted, created, freeZero>>

\* Java_org_gluesql_GlueSQL_nativeQueryAsync and JavaGlue::query_async.
\* fail names the JNI step that fails, if any; each failure is reported
\* with call_error_callback on the caller's thread and nothing is spawned.
\* Otherwise the CallbackData is built, both Arcs are cloned and a thread
\* is spawned; the entry point returns.
nativeQueryAsync(handle, sql, fail, errstr_ok) ==
    /\ ~aborted
    /\ boxes[handle] # 0
    /\ NextCall # 0
    /\ LET c == NextCall
           i == boxes[handle]
           base == [IdleCall EXCEPT !.mode = "async", !.handle = handle,
                                    !.glue = glue_clone(i),
                                    !.after = {d \in Calls : calls[d].pc \in Ended}]
           message == CASE fail = "string" -> "Failed to parse SQL string"
                        [] fail = "vm" -> "Failed to get JavaVM"
                        [] OTHER -> "Failed to create global reference"
       IN IF fail # "none"
          THEN /\ calls' = [calls EXCEPT ![c] =
                              [base EXCEPT !.pc = "done", !.result = Err(message)]]
               /\ sink' = [sink EXCEPT ![c] = call_error_callback(message, errstr_ok)]
               /\ UNCHANGED refs
          ELSE /\ calls' = [calls EXCEPT ![c] =
                              [base EXCEPT !.sql = sql, !.pc = "query", !.ctx = "live",
                                           !.held = lockHolder[i]]]
               /\ refs' = [refs EXCEPT ![i] = @ + 1]
               /\ UNCHANGED sink
    /\ UNCHANGED <<boxes, kind, storage, lockHolder, poisoned, aborted, created, freeZero>>

\* A loop that leaves at the first failing statement and serializes the
\* payloads collected so far.
FailQuery_break(call, msg) ==
    [call EXCEPT !.result = Ok(convert_payload(call.payloads).val),
                 !.pc = AfterQuery(call.mode)]

\* `?` / `return Err(..)` inside query: the call ends with that error.
FailQuery(call, msg) ==
    [call EXCEPT !.result = Err(msg), !.pc = AfterQuery(call.mode)]

\* query, line 79: convert(payloads) after the loop, the value of query.
Converted(call) ==
    LET r == convert_payload(call.payloads)
    IN IF r.panic
       THEN Panicked(call, "unwrap")
       ELSE [call EXCEPT !.result = Ok(r.val), !.pc = AfterQuery(call.mode)]

\* A loop that takes the parsed queries from the last to the first.
LoopHead_backwards(call) ==
    IF call.k > Len(call.queries)
    THEN Converted(call)
    ELSE LET t == translate(call.queries[Len(call.queries) + 1 - call.k])
         IN IF t.ok
            THEN [call EXCEPT !.statement = t.statement, !.pc = "lock"]
            ELSE FailQuery(call, t.msg)

\* query, lines 55-57: the head of the loop over the parsed queries.  The
\* next query is translated and the call goes on to take the lock; after
\* the last one the payloads are converted.
LoopHead(call) ==
    IF call.k > Len(call.queries)
    THEN Converted(call)
    ELSE LET t == translate(call.queries[call.k])
         IN IF t.ok
            THEN [call EXCEPT !.statement = t.statement, !.pc = "lock"]
            ELSE FailQuery(call, t.msg)

\* The thread of call c has run on to `next`: a panic on a nativeQuery
\* thread aborts the process, a worker that panicked drops its glue_clone.
RunsOnTo(c, next) ==
    /\ calls' = [calls EXCEPT ![c] = next]
    /\ aborted' = (next.pc = "panicked" /\ next.mode = "sync")
    /\ refs' = IF next.pc = "panicked" THEN RefsAfterEnd(next) ELSE refs

\* query, lines 50-57: block_on starts the future; parse(&sql), then the
\* first pass through the head of the loop.
Begin(c) ==
    /\ ~aborted
    /\ calls[c].pc = "query"
    /\ LET call == [calls[c] EXCEPT !.held = 0]
           p == parse(call.sql)
       IN RunsOnTo(c, IF p.ok
                      THEN LoopHead([call EXCEPT !.queries = p.queries, !.k = 1])
                      ELSE FailQuery(call, p.msg))
    /\ UNCHANGED <<boxes, kind, storage, lockHolder, poisoned, sink, created, freeZero>>

\* A lock that admits a writer while another holds the guard.
CanAcquire_unguarded(holder) == TRUE

\* RwLock::write returns only when no guard is outstanding.
CanAcquire(holder) == holder = 0

\* query, lines 60-63: self.storage.write().unwrap() and the start of
\* execute.  On a poisoned lock write() returns Err, unwrap panics and the
\* guard inside the error is dropped.
Lock(c) ==
    /\ ~aborted
    /\ calls[c].pc = "lock"
    /\ LET call == calls[c]
           i == call.glue
       IN /\ CanAcquire(lockHolder[i])
          /\ IF poisoned[i]
             THEN /\ RunsOnTo(c, Panicked(call, "PoisonError"))
                  /\ UNCHANGED lockHolder
             ELSE /\ lockHolder' = [lockHolder EXCEPT ![i] = c]
                  /\ RunsOnTo(c, [call EXCEPT !.pc = "exec", !.snap = storage[i],
                                              !.log = Append(@, call.k)])
    /\ UNCHANGED <<boxes, kind, storage, poisoned, sink, created, freeZero>>

\* A guard declared outside the loop: call c keeps it while it goes on to
\* its next statement.
GuardAfterBlock_kept(c, next) == IF next.pc = "lock" THEN c ELSE 0

\* A guard that is not dropped when the statement has failed.
GuardAfterBlock_leaked(c, next) == IF next.result.tag = "Err" THEN c ELSE 0

\* query, line 69: storage_guard is a local of the block that computes
\* `result`, so it is dropped there, wherever call c goes next; the lock has
\* no holder afterwards.
GuardAfterBlock(c, next) == 0

\* query, lines 63-77: execute completes, the guard is dropped at the end
\* of the block, the result is matched and the loop goes on.  A panic
\* inside execute unwinds through the guard, which poisons the lock.
Exec(c) ==
    /\ ~aborted
    /\ calls[c].pc = "exec"
    /\ LET call == [calls[c] EXCEPT !.snap = {}]
           i == call.glue
           r == execute(call.statement, calls[c].snap)
           next == CASE r.status = "ok" ->
                          LoopHead([call EXCEPT !.payloads = Append(@, r.payload),
                                                !.k = @ + 1])
                     [] r.status = "err" -> FailQuery(call, r.msg)
                     [] OTHER -> Panicked(call, "backend")
       IN /\ lockHolder' = [lockHolder EXCEPT ![i] = GuardAfterBlock(c, next)]
          /\ storage' = [storage EXCEPT ![i] = r.rows]
          /\ poisoned' = [poisoned EXCEPT ![i] = @ \/ r.status = "panic"]
          /\ RunsOnTo(c, next)
    /\ UNCHANGED <<boxes, kind, sink, created, freeZero>>

\* nativeQuery, lines 206-215: the result becomes a Java string (null if it
\* cannot be created), an error is thrown as GlueSQLException.
Return(c, str_ok) ==
    /\ ~aborted
    /\ calls[c].pc = "return"
    /\ calls[c].result.tag = "Err" => str_ok
    /\ calls' = [calls EXCEPT ![c] =
                   [@ EXCEPT !.pc = "done",
                             !.ret = IF calls[c].result.tag = "Err" THEN "exception"
                                     ELSE IF str_ok THEN "string" ELSE "null"]]
    /\ UNCHANGED <<boxes, engine, sink, aborted, created, freeZero>>

\* The worker closure of query_async, line 93 to its end:
\* call_java_callback, then callback_data and glue_clone are dropped.
Deliver(c, attach_ok, str_ok) ==
    /\ ~aborted
    /\ calls[c].pc = "deliver"
    /\ ~attach_ok => str_ok
    /\ sink' = [sink EXCEPT ![c] =
                  @ \o call_java_callback(calls[c].result, attach_ok, str_ok)]
    /\ calls' = [calls EXCEPT ![c] =
                   [@ EXCEPT !.pc = "done", !.ctx = "dropped",
                             !.attach = IF attach_ok THEN "ok" ELSE "failed"]]
    /\ refs' = RefsAfterEnd(calls[c])
    /\ UNCHANGED <<boxes, kind, storage, lockHolder, poisoned, aborted, created, freeZero>>

\* The steps of the threads that run a query, the workers meeting the
\* outcomes `attaches` of attach_current_thread.
StepWith(attaches) ==
    \/ \E c \in Calls : Begin(c)
    \/ \E c \in Calls : Lock(c)
    \/ \E c \in Calls : Exec(c)
    \/ \E c \in Calls, str_ok \in BOOLEAN : Return(c, str_ok)
    \/ \E c \in Calls, attach_ok \in attaches, str_ok \in BOOLEAN :
          Deliver(c, attach_ok, str_ok)

\* The steps of the threads that run a query.
Step == StepWith(BOOLEAN)

JniFailures == {"none", "string", "vm", "globalref"}

\* Spec: the host opens one Memory instance and makes up to MaxCalls calls
\* on it, from any number of threads.  The JavaVM stays up while they run,
\* so every worker can attach to it.
Next ==
    \/ \E rt_ok \in BOOLEAN : created.n = 0 /\ nativeNew("Memory", TRUE, TRUE, rt_ok)
    \/ \E handle \in Handles, sql \in ShortTexts, str_ok \in BOOLEAN :
          nativeQuery(handle, sql, str_ok)
    \/ \E handle \in Handles, sql \in ShortTexts, fail \in JniFailures, errstr_ok \in BOOLEAN :
          nativeQueryAsync(handle, sql, fail, errstr_ok)
    \/ StepWith({TRUE})

Spec == Init /\ [][Next]_vars

\* SpecBatch: one Memory instance, up to MaxBatchCalls calls with any text.
NextBatch ==
    \/ \E rt_ok \in BOOLEAN : created.n = 0 /\ nativeNew("Memory", TRUE, TRUE, rt_ok)
    \/ \E handle \in Handles : nativeFree(handle)
    \/ \E handle \in Handles, sql \in Texts, str_ok \in BOOLEAN :
          NextCall <= MaxBatchCalls /\ nativeQuery(handle, sql, str_ok)
    \/ \E handle \in Handles, sql \in Texts, fail \in JniFailures, errstr_ok \in BOOLEAN :
          NextCall <= MaxBatchCalls /\ nativeQueryAsync(handle, sql, fail, errstr_ok)
    \/ Step

SpecBatch == Init /\ [][NextBatch]_vars

\* SpecLife: up to MaxNew creations of any kind, any number of frees of live
\* handles and of the zero sentinel, and one query call.
NextLife ==
    \/ \E k \in Kinds, path_ok, storage_ok, rt_ok \in BOOLEAN :
          created.n < MaxNew /\ nativeNew(k, path_ok, storage_ok, rt_ok)
    \/ \E handle \in {0} \cup Handles : nativeFree(handle)
    \/ \E handle \in Handles, sql \in LifeTexts, str_ok \in BOOLEAN :
          calls[1].pc = "idle" /\ nativeQuery(handle, sql, str_ok)
    \/ \E handle \in Handles, sql \in LifeTexts, fail \in JniFailures, errstr_ok \in BOOLEAN :
          calls[1].pc = "idle" /\ nativeQueryAsync(handle, sql, fail, errstr_ok)
    \/ Step

SpecLife == Init /\ [][NextLife]_vars

\* SpecOrder: one Memory instance and up to MaxCalls calls whose texts
\* execute one or two statements; the JavaVM stays up and serves every JNI
\* call but, at times, the conversion of the SQL string.
NextOrder ==
    \/ created.n = 0 /\ nativeNew("Memory", TRUE, TRUE, TRUE)
    \/ \E handle \in Handles, sql \in OrderTexts, str_ok \in BOOLEAN :
          nativeQuery(handle, sql, str_ok)
    \/ \E handle \in Handles, sql \in OrderTexts, fail \in {"none", "string"} :
          nativeQueryAsync(handle, sql, fail, TRUE)
    \/ \E c \in Calls : Begin(c) \/ Lock(c) \/ Exec(c) \/ Return(c, TRUE) \/ Deliver(c, TRUE, TRUE)

SpecOrder == Init /\ [][NextOrder]_vars

\* The next step of the thread that runs call c, while the JavaVM serves it.
Thread(c) ==
    Begin(c) \/ Lock(c) \/ Exec(c) \/ Return(c, TRUE) \/ Deliver(c, TRUE, TRUE)

\* SpecFair: one Memory instance and up to MaxCalls calls, served by the
\* JavaVM, under a fair scheduler: a thread whose next step stays possible
\* takes it.  No backend execution of FairTexts panics or runs forever.
NextFair ==
    \/ created.n = 0 /\ nativeNew("Memory", TRUE, TRUE, TRUE)
    \/ \E handle \in Handles, sql \in FairTexts : nativeQuery(handle, sql, TRUE)
    \/ \E handle \in Handles, sql \in FairTexts :
          nativeQueryAsync(handle, sql, "none", TRUE)
    \/ \E c \in Calls : Thread(c)

SpecFair == Init /\ [][NextFair]_vars /\ \A c \in Calls : WF_vars(Thread(c))

\* SpecProject: one Memory instance and one call, whose text draws every
\* variant of Payload from the backend.
NextProject ==
    \/ created.n = 0 /\ nativeNew("Memory", TRUE, TRUE, TRUE)
    \/ \E handle \in Handles, sql \in ProjectTexts, str_ok \in BOOLEAN :
          calls[1].pc = "idle" /\ nativeQuery(handle, sql, str_ok)
    \/ \E handle \in Handles, sql \in ProjectTexts, fail \in JniFailures, errstr_ok \in BOOLEAN :
          calls[1].pc = "idle" /\ nativeQueryAsync(handle, sql, fail, errstr_ok)
    \/ Step

SpecProject == Init /\ [][NextProject]_vars

\* ------------------------------------------------------------- properties
Range(f) == {f[x] : x \in DOMAIN f}

Executing(c) == calls[c].pc = "exec"

\* C1: on one instance at most one statement is executing at a time, and
\* a statement executes only while its call holds the write lock, whatever
\* mix of nativeQuery calls and query_async workers runs on the handle.
C1_MutualExclusion ==
    \A i \in Insts :
       /\ Cardinality({c \in Calls : Executing(c) /\ calls[c].glue = i}) <= 1
       /\ \A c \in Calls : Executing(c) /\ calls[c].glue = i => lockHolder[i] = c

\* A synchronous call executes under the lock while a worker of the same
\* instance waits for it.
C1_Witness ==
    \E c, d \in Calls :
       /\ calls[c].mode = "sync" /\ Executing(c) /\ lockHolder[calls[c].glue] = c
       /\ calls[d].mode = "async" /\ calls[d].pc = "lock"
       /\ calls[d].glue = calls[c].glue

\* A nativeQuery call that consisted of one INSERT and has returned its result.
SyncInsertDone(c) ==
    /\ calls[c].mode = "sync"
    /\ calls[c].pc = "done"
    /\ calls[c].sql \in {<<"INSERT 1">>, <<"INSERT 2">>}
    /\ calls[c].result.tag = "Ok"

InsertedRow(c) == RowValues(calls[c].queries[1].row)

\* What a SELECT executed on instance i in this state returns.
SelectNow(i) == execute(translate(ast("SELECT")).statement, storage[i]).payload.rows

\* C2: when two nativeQuery calls on one handle, each a single INSERT, have
\* both returned, a SELECT on that handle returns both rows: the SELECT
\* that would execute now, and the SELECT of every call begun after both.
C2_NoLostUpdate ==
    \A a, b \in Calls :
       (a # b /\ SyncInsertDone(a) /\ SyncInsertDone(b) /\ calls[a].glue = calls[b].glue) =>
          /\ {InsertedRow(a), InsertedRow(b)} \subseteq Range(SelectNow(calls[a].glue))
          /\ \A s \in Calls :
                ({a, b} \subseteq calls[s].after /\ calls[s].glue = calls[a].glue) =>
                   \A p \in Range(calls[s].payloads) :
                      p.shape = "Select" =>
                         {InsertedRow(a), InsertedRow(b)} \subseteq Range(p.rows)

\* Two single-INSERT calls of different rows overlapped in time (neither
\* had ended when the other began) and both have returned.
C2_Witness ==
    \E a, b \in Calls :
       /\ a # b /\ SyncInsertDone(a) /\ SyncInsertDone(b)
       /\ calls[a].glue = calls[b].glue
       /\ InsertedRow(a) # InsertedRow(b)
       /\ a \notin calls[b].after /\ b \notin calls[a].after
       /\ Len(SelectNow(calls[a].glue)) = 2

\* C3: the sink of a query_async call is invoked at most once, never
\* through both entry points, and only with the outcome of its own call.
C3_SinkAtMostOnce ==
    \A c \in Calls :
       /\ Len(sink[c]) <= 1
       /\ ~(\E e, f \in DOMAIN sink[c] :
               sink[c][e].entry = "onSuccess" /\ sink[c][f].entry = "onError")
       /\ calls[c].mode # "async" => sink[c] = <<>>
       /\ \A e \in DOMAIN sink[c] :
             IF sink[c][e].entry = "onSuccess"
             THEN calls[c].result.tag = "Ok" /\ sink[c][e].val = calls[c].result.val
             ELSE calls[c].result.tag = "Err" /\ sink[c][e].msg = calls[c].result.msg

\* Two workers of one handle ran concurrently; one delivered onSuccess and
\* the other onError.
C3_Witness ==
    \E c, d \in Calls :
       /\ calls[c].mode = "async" /\ calls[d].mode = "async"
       /\ calls[c].glue = calls[d].glue
       /\ c \notin calls[d].after /\ d \notin calls[c].after
       /\ calls[c].ctx = "dropped" /\ calls[d].ctx = "dropped"
       /\ Len(sink[c]) = 1 /\ sink[c][1].entry = "onSuccess"
       /\ Len(sink[d]) = 1 /\ sink[d][1].entry = "onError"

\* C4: a CallbackData is never destroyed with zero entry points fired:
\* every query_async call whose context is gone has invoked its sink once,
\* onSuccess for a result and onError for an error.
C4_NeverZero ==
    \A c \in Calls :
       calls[c].ctx = "dropped" =>
          /\ Len(sink[c]) = 1
          /\ calls[c].result.tag # "none"
          /\ sink[c][1].entry = IF calls[c].result.tag = "Ok" THEN "onSuccess" ELSE "onError"

Inserts == {"INSERT 1", "INSERT 2"}

\* The type the record of a successfully executed statement carries.
ExpectedType(src) == IF src \in Inserts THEN "Insert" ELSE "Select"

SyncBatchDone(c) ==
    /\ calls[c].mode = "sync"
    /\ calls[c].pc = "done"
    /\ Len(calls[c].sql) = 2
    /\ calls[c].sql[1] \in Inserts

\* C6 as stated: a two-statement batch whose second statement is malformed
\* returns an error, and the first statement was executed and its effect is
\* in the backend.
C6_Original ==
    \A c \in Calls :
       (SyncBatchDone(c) /\ calls[c].sql[2] = "GARBAGE") =>
          /\ calls[c].result.tag = "Err"
          /\ 1 \in Range(calls[c].log)
          /\ ast(calls[c].sql[1]).row \in storage[calls[c].glue]

\* C6 amended: a two-statement batch whose second statement fails returns
\* an error.  When the second statement fails in translation or execution
\* the first was executed and its effect is in the backend; when it does not
\* parse, the text fails to parse and no statement of the batch is executed.
C6_Amended ==
    \A c \in Calls :
       (SyncBatchDone(c) /\ calls[c].sql[2] \in {"GARBAGE", "UNSUPPORTED", "SELECT missing"}) =>
          /\ calls[c].result.tag = "Err"
          /\ calls[c].ret = "exception"
          /\ IF calls[c].sql[2] = "GARBAGE"
             THEN calls[c].log = <<>> /\ calls[c].result.msg = "parse error"
             ELSE /\ 1 \in Range(calls[c].log)
                  /\ ast(calls[c].sql[1]).row \in storage[calls[c].glue]

\* The batch INSERT 1; GARBAGE has returned its error.
C6_Witness ==
    \E c \in Calls :
       /\ SyncBatchDone(c)
       /\ calls[c].sql[2] = "GARBAGE"
       /\ calls[c].ret = "exception"
       /\ calls[c].log = <<>>

\* The first statement of a text that fails in translation or execution,
\* 0 if there is none.
FirstFailing(sql) ==
    LET bad == {i \in DOMAIN sql : sql[i] \in {"UNSUPPORTED", "SELECT missing"}}
    IN IF bad = {} THEN 0 ELSE CHOOSE i \in bad : \A j \in bad : i <= j

\* C7: in a batch that parses and whose statement k is the first to fail in
\* translation or execution, no statement after k is ever handed to the
\* backend and no serialized result is ever produced; once query has
\* returned, the call carries the error of statement k and the rows
\* inserted by statements 1..k-1 are in the backend.
C7_AbortAtFirstFailure ==
    \A c \in Calls :
       LET sql == calls[c].sql
           k == FirstFailing(sql)
       IN (k # 0 /\ "GARBAGE" \notin Range(sql) /\ "CRASH" \notin Range(sql)) =>
             /\ \A j \in Range(calls[c].log) : j <= k
             /\ calls[c].result.tag # "Ok"
             /\ calls[c].ret \notin {"string", "null"}
             /\ \A e \in DOMAIN sink[c] : sink[c][e].entry # "onSuccess"
             /\ calls[c].pc \in {"return", "deliver", "done"} =>
                   /\ calls[c].result =
                         Err(IF sql[k] = "UNSUPPORTED" THEN "translate error"
                             ELSE "execute error")
                   /\ calls[c].log =
                         [i \in 1..(IF sql[k] = "UNSUPPORTED" THEN k - 1 ELSE k) |-> i]
                   /\ \A j \in 1..(k - 1) :
                         sql[j] \in Inserts => ast(sql[j]).row \in storage[calls[c].glue]

\* In INSERT 1; SELECT missing; INSERT 2 the second statement has failed:
\* the call ended with its error, row 1 is in the backend and the third
\* statement was never executed.
C7_Witness ==
    \E c \in Calls :
       /\ calls[c].pc = "done"
       /\ calls[c].sql = <<"INSERT 1", "SELECT missing", "INSERT 2">>
       /\ calls[c].result = Err("execute error")
       /\ calls[c].log = <<1, 2>>
       /\ storage[calls[c].glue] = {1}

\* C8: a call that finds the lock poisoned gets a QueryError; its thread
\* does not panic on the failed acquisition.
C8_PoisonSurfaced ==
    \A c \in Calls : calls[c].panic # "PoisonError"

C10_FreeZeroNoOp ==
    [][freeZero' # freeZero =>
         /\ UNCHANGED <<boxes, kind, storage, lockHolder, poisoned, refs, calls, sink,
                        created>>
         /\ ~aborted']_vars

\* nativeFree(0) was called and a worker is executing under the lock of a
\* live instance.
C10_Witness ==
    /\ freeZero = 1
    /\ ~aborted
    /\ \E c \in Calls :
          /\ calls[c].mode = "async" /\ Executing(c)
          /\ boxes[calls[c].handle] = calls[c].glue
          /\ lockHolder[calls[c].glue] = c

\* A call slot is left and handle h is live: the host may call.
CanCall(h) == ~aborted /\ boxes[h] # 0 /\ NextCall # 0

\* C11: nativeQueryAsync can return whenever the host can call it, whoever
\* holds the write lock; and the step in which it returns executes nothing:
\* the lock, the backend and every other call are as before, and the call
\* is either over (a JNI failure reported through onError) or handed to a
\* newly spawned worker that has not started, with its own clone of the
\* instance and the CallbackData.
C11_AsyncReturnsAtOnce ==
    /\ [](\A h \in Handles :
             CanCall(h) => ENABLED nativeQueryAsync(h, <<"INSERT 1">>, "none", TRUE))
    /\ [][\A c \in Calls :
             (calls[c].pc = "idle" /\ calls'[c].mode = "async") =>
                /\ lockHolder' = lockHolder
                /\ storage' = storage
                /\ poisoned' = poisoned
                /\ \A d \in Calls \ {c} : calls'[d] = calls[d]
                /\ calls'[c].log = <<>> /\ calls'[c].payloads = <<>>
                /\ \/ /\ calls'[c].pc = "done"
                      /\ calls'[c].result.tag = "Err"
                      /\ refs' = refs
                   \/ /\ calls'[c].pc = "query"
                      /\ calls'[c].ctx = "live"
                      /\ calls'[c].glue = boxes[calls'[c].handle]
                      /\ refs' = [refs EXCEPT ![calls'[c].glue] = @ + 1]]_vars

\* nativeQueryAsync has returned while a nativeQuery call of another thread
\* was executing under the lock; that call still holds it and the spawned
\* worker has not started.
C11_Witness ==
    \E c, d \in Calls :
       /\ calls[c].mode = "async" /\ calls[c].pc = "query"
       /\ calls[c].held = d
       /\ calls[d].mode = "sync" /\ Executing(d) /\ lockHolder[calls[c].glue] = d

\* C12: the write lock is held by a call only while one of its statements
\* executes: the k-th acquisition of a call is for its k-th statement, and
\* between two statements of a batch, and once the call has left the loop,
\* the call holds nothing, so the lock is free for the other threads.
C12_LockPerStatement ==
    \A i \in Insts : \A c \in Calls :
       /\ lockHolder[i] = c =>
             /\ Executing(c) /\ calls[c].glue = i
             /\ Len(calls[c].log) = calls[c].k
       /\ (calls[c].glue = i /\ calls[c].pc = "lock") =>
             /\ lockHolder[i] # c
             /\ Len(calls[c].log) = calls[c].k - 1

\* Thread A runs INSERT 1; SELECT missing and thread B runs SELECT on the
\* same handle: B's SELECT has returned the row of A's first statement, and
\* A has only now taken the lock for its second statement.
C12_Witness ==
    \E a, b \in Calls :
       /\ calls[a].mode = "sync" /\ calls[b].mode = "sync"
       /\ calls[a].glue = calls[b].glue
       /\ calls[a].sql = <<"INSERT 1", "SELECT missing">>
       /\ calls[b].sql = <<"SELECT">>
       /\ calls[b].pc = "done" /\ calls[b].result.tag = "Ok"
       /\ calls[b].payloads[1].rows = <<RowValues(1)>>
       /\ Executing(a) /\ calls[a].k = 2 /\ calls[a].log = <<1, 2>>
       /\ lockHolder[calls[a].glue] = a

\* The statement that source number j of call c translates to.
StatementOf(c, j) == translate(ast(calls[c].sql[j])).statement

\* C13: a call hands its statements to the backend in source order and one
\* at a time: the statements started so far are numbers 1..n of the text
\* with no gap and no repetition, the one that executes is the n-th
\* statement of the source, and when it was started every statement before
\* it had finished and left its payload.
C13_SourceOrder ==
    \A c \in Calls :
       LET n == Len(calls[c].log)
       IN /\ calls[c].log = [j \in 1..n |-> j]
          /\ n <= Len(calls[c].sql)
          /\ Len(calls[c].payloads) \in {n - 1, n}
          /\ Executing(c) =>
                /\ calls[c].k = n
                /\ Len(calls[c].payloads) = n - 1
                /\ calls[c].statement = StatementOf(c, n)
          /\ calls[c].pc = "lock" =>
                /\ Len(calls[c].payloads) = n
                /\ calls[c].statement = StatementOf(c, n + 1)
          /\ \A j \in DOMAIN calls[c].payloads :
                calls[c].payloads[j].shape = StatementOf(c, j).op

\* A worker executes the second statement of INSERT 1; SELECT missing after
\* its first, and the SELECT of another thread has executed in between: it
\* returned the row of the first statement.
C13_Witness ==
    \E c, d \in Calls :
       /\ c # d /\ calls[c].glue = calls[d].glue
       /\ calls[c].mode = "async"
       /\ calls[c].sql = <<"INSERT 1", "SELECT missing">>
       /\ Executing(c) /\ calls[c].log = <<1, 2>>
       /\ calls[c].statement.table = "missing"
       /\ Len(calls[c].payloads) = 1 /\ calls[c].payloads[1].shape = "Insert"
       /\ calls[d].sql = <<"SELECT">> /\ calls[d].pc = "done"
       /\ calls[d].payloads = <<execute(StatementOf(d, 1), {1}).payload>>

\* A query_async call of one INSERT whose worker executed it with success.
AsyncInsertDone(c) ==
    /\ calls[c].mode = "async"
    /\ calls[c].pc = "done"
    /\ calls[c].sql \in {<<"INSERT 1">>, <<"INSERT 2">>}
    /\ calls[c].result.tag = "Ok"

\* C14: the JavaGlue a call works on, the one behind the handle or the
\* clone moved into a worker, is the instance of its handle: it executes on
\* the rows of that instance, and the row inserted by a worker is in what
\* every nativeQuery call begun later on the handle selects.  No engine
\* exists besides those the creation calls built.
C14_SharedEngine ==
    /\ Cardinality({i \in Insts : kind[i] # "none"}) <= created.n
    /\ \A c \in Calls :
          calls[c].mode # "none" =>
             /\ calls[c].glue = boxes[calls[c].handle]
             /\ Executing(c) => calls[c].snap = storage[boxes[calls[c].handle]]
    /\ \A a, s \in Calls :
          (AsyncInsertDone(a) /\ calls[s].mode = "sync"
             /\ calls[s].handle = calls[a].handle /\ a \in calls[s].after) =>
             /\ InsertedRow(a) \in Range(SelectNow(boxes[calls[s].handle]))
             /\ \A p \in Range(calls[s].payloads) :
                   p.shape = "Select" => InsertedRow(a) \in Range(p.rows)

\* A worker inserted row 1 and ended; a nativeQuery call begun afterwards
\* on the same handle has returned that row from its SELECT.
C14_Witness ==
    \E a, s \in Calls :
       /\ AsyncInsertDone(a) /\ calls[a].sql = <<"INSERT 1">>
       /\ calls[s].mode = "sync" /\ calls[s].handle = calls[a].handle
       /\ a \in calls[s].after
       /\ calls[s].sql = <<"SELECT">>
       /\ calls[s].pc = "done" /\ calls[s].ret = "string"
       /\ calls[s].result.val[1].rows = <<ZipRow(Labels, RowValues(1))>>

\* The holders of instance i: the handle slots that box it and the glue
\* clones of the workers that have not ended.
Holders(i) ==
    Cardinality({h \in Handles : boxes[h] = i})
      + Cardinality({c \in Calls : calls[c].ctx = "live" /\ calls[c].glue = i})

\* The statement sources that execute with success on any backend state.
Sound == {"INSERT 1", "INSERT 2", "SELECT"}

\* C15: the strong count of an engine is the number of its holders, so the
\* engine is destroyed exactly when the handle slot and every worker clone
\* are gone; a worker in flight always has a live engine, also after its
\* handle was freed, and when it ends it has executed every statement of a
\* text of sound statements and left their rows in the engine.
C15_EngineOutlivesHandle ==
    /\ \A i \in Insts : refs[i] = Holders(i)
    /\ \A c \in Calls :
          (calls[c].mode = "async" /\ calls[c].pc \in Running) =>
             /\ refs[calls[c].glue] >= 1
             /\ kind[calls[c].glue] # "none"
             /\ \A j \in 1..(calls[c].k - 1) :
                   calls[c].sql[j] \in Inserts =>
                      ast(calls[c].sql[j]).row \in storage[calls[c].glue]
    /\ \A c \in Calls :
          (calls[c].mode = "async" /\ calls[c].pc = "done" /\ calls[c].ctx = "dropped"
             /\ Range(calls[c].sql) \subseteq Sound) =>
             /\ calls[c].result.tag = "Ok"
             /\ Len(calls[c].log) = Len(calls[c].sql)
             /\ Len(calls[c].result.val) = Len(calls[c].sql)

\* The handle was freed while the worker of INSERT 1; SELECT was in flight:
\* the worker is executing its second statement on the engine, of which it
\* is the only holder left.
C15_Witness ==
    \E c \in Calls :
       /\ calls[c].mode = "async"
       /\ calls[c].sql = <<"INSERT 1", "SELECT">>
       /\ boxes[calls[c].handle] = 0
       /\ Executing(c) /\ calls[c].k = 2
       /\ refs[calls[c].glue] = 1
       /\ storage[calls[c].glue] = {1}

\* C16: a worker that could not attach has invoked neither entry point, its
\* call is over (nothing is retried) and its CallbackData is dropped.  The
\* CallbackData, which owns the global reference to the sink, lives until
\* the one delivery attempt and is dropped in every outcome: delivered,
\* not delivered, or the worker panicked.
C16_SinkReleased ==
    \A c \in Calls :
       /\ calls[c].attach = "failed" =>
             /\ sink[c] = <<>>
             /\ calls[c].pc = "done"
             /\ calls[c].ctx = "dropped"
       /\ calls[c].attach # "none" =>
             /\ calls[c].mode = "async" /\ calls[c].pc = "done"
             /\ calls[c].result.tag # "none"
       /\ calls[c].pc \in Ended => calls[c].ctx # "live"
       /\ (calls[c].mode = "async" /\ calls[c].pc \in Running) => calls[c].ctx = "live"
       /\ sink[c] # <<>> => calls[c].ctx # "live"

\* The worker of INSERT 1; SELECT had its result and could not attach:
\* nothing was delivered and the CallbackData is gone.
C16_Witness ==
    \E c \in Calls :
       /\ calls[c].mode = "async" /\ calls[c].pc = "done"
       /\ calls[c].sql = <<"INSERT 1", "SELECT">>
       /\ calls[c].result.tag = "Ok"
       /\ calls[c].attach = "failed"
       /\ sink[c] = <<>>
       /\ calls[c].ctx = "dropped"
       /\ refs[calls[c].glue] = Holders(calls[c].glue)

\* The backend answered a SELECT of call c with a row holding a value that
\* has no serialized form.
HasUnrepresentable(c) ==
    \E p \in Range(calls[c].payloads) :
       /\ p.shape = "Select"
       /\ \E r \in Range(p.rows) : \E v \in Range(r) : ~Representable(v)

\* C17: a call whose SELECT returned a value that cannot be serialized does
\* not panic; once its loop is over it carries an error, which nativeQuery
\* throws and a worker hands to onError.
C17_SerializationError ==
    \A c \in Calls :
       (HasUnrepresentable(c) /\ calls[c].k > Len(calls[c].queries)) =>
          /\ calls[c].panic = "none"
          /\ ~aborted
          /\ calls[c].result.tag = "Err"
          /\ calls[c].ret \in {"none", "exception"}
          /\ \A e \in DOMAIN sink[c] : sink[c][e].entry = "onError"

\* The fixed vocabulary of record types.
Vocabulary ==
    {"Create", "Insert", "Update", "Delete", "Select", "DropTable", "AlterTable",
     "CreateIndex", "DropIndex", "ShowColumns", "SelectMap", "DropFunction",
     "ShowVariable", "StartTransaction", "Commit", "Rollback"}

\* C18: every record of a result carries a type of the vocabulary, the name
\* of the Payload variant it was projected from.
C18_TypeVocabulary ==
    \A c \in Calls :
       calls[c].result.tag = "Ok" =>
          \A i \in DOMAIN calls[c].result.val :
             /\ calls[c].result.val[i].type \in Vocabulary
             /\ calls[c].result.val[i].type = calls[c].payloads[i].shape

\* C19: the record of a Select payload has one entry per row, in row order,
\* and the entry of a row maps the label of every column to the value the
\* row holds in that column.
C19_ColumnsRecoverable ==
    \A c \in Calls :
       calls[c].result.tag = "Ok" =>
          \A i \in DOMAIN calls[c].payloads :
             calls[c].payloads[i].shape = "Select" =>
                LET p == calls[c].payloads[i]
                    rec == calls[c].result.val[i]
                IN /\ Len(rec.rows) = Len(p.rows)
                   /\ \A r \in DOMAIN p.rows : \A j \in DOMAIN p.labels :
                         /\ p.labels[j] \in DOMAIN rec.rows[r]
                         /\ rec.rows[r][p.labels[j]] = p.rows[r][j]

\* C20: under a fair scheduler every call that has started returns, however
\* the nativeQuery calls and the workers of the handle interleave; and a
\* call that has left the loop of query, with a result or with an error,
\* holds the lock of no engine.
C20_Termination ==
    /\ \A c \in Calls : (calls[c].pc \in Running) ~> (calls[c].pc = "done")
    /\ [](\A c \in Calls :
             calls[c].pc \in {"return", "deliver", "done", "panicked"} =>
                \A i \in Insts : lockHolder[i] # c)

\* A nativeQuery call and a worker ran at the same time on one handle and
\* both have returned, one with an error and one with a result; the lock is
\* free.
C20_Witness ==
    \E c, d \in Calls :
       /\ calls[c].mode = "sync" /\ calls[d].mode = "async"
       /\ calls[c].glue = calls[d].glue
       /\ c \notin calls[d].after /\ d \notin calls[c].after
       /\ calls[c].pc = "done" /\ calls[d].pc = "done"
       /\ calls[c].sql = <<"INSERT 1", "SELECT missing">>
       /\ calls[c].ret = "exception"
       /\ calls[d].result.tag = "Ok" /\ Len(sink[d]) = 1
       /\ lockHolder[calls[c].glue] = 0

====
